---- MODULE Spec2Model ----
(***************************************************************************)
(* A model of the rparse parser-combinator engine: positions, streams      *)
(* (&str, String and the position-tracking State wrapper), the Parser      *)
(* contract (lazy and committed entry points) and the combinators.         *)
(*                                                                         *)
(* A text is a sequence of chars.  "é" stands for any char whose UTF-8     *)
(* encoding takes two bytes; every other char of the model takes one.      *)
(* Rust's str/String index and measure in BYTES, while peek/pop/tokens     *)
(* work in chars, so the model keeps both views.                           *)
(***************************************************************************)
EXTENDS Naturals, Sequences, FiniteSets, TLC

VARIABLES
    stream,     \* the stream the caller holds now
    prev,       \* the stream the last operation was given
    op,         \* name of the last operation ("init" before any)
    arg,        \* numeric argument of the last stream operation
    ret,        \* Option returned by the last stream operation
    subject,    \* parsers the last parser run was built from
    result,     \* ParseResult of the last parser run
    result2     \* ParseResult of the run it is compared with

vars == <<stream, prev, op, arg, ret, subject, result, result2>>

(***************************************************************************)
(* Bounds of the model.                                                    *)
(***************************************************************************)
MaxLen == 3       \* longest input text, in chars
MaxRange == 4     \* largest argument given to Stream::range

(***************************************************************************)
(* Items and texts.                                                        *)
(***************************************************************************)
NL == "\n"
Items == {"a", "b", NL, "é"}

\* char::len_utf8
len_utf8(c) == IF c = "é" THEN 2 ELSE 1

Texts(n) == UNION {[1..k -> Items] : k \in 0..n}

\* Option<T>: the payload is kept as a sequence (one element for an item).
None == [some |-> FALSE, val |-> <<>>]
Some(v) == [some |-> TRUE, val |-> v]

RECURSIVE str_len(_)
\* str::len / String::len: the length in bytes
str_len(s) == IF s = <<>> THEN 0 ELSE len_utf8(Head(s)) + str_len(Tail(s))

\* str::is_char_boundary
is_char_boundary(s, idx) == \E k \in 0..Len(s) : str_len(SubSeq(s, 1, k)) = idx

\* number of chars in the first idx bytes of s (idx a char boundary)
chars_to(s, idx) == CHOOSE k \in 0..Len(s) : str_len(SubSeq(s, 1, k)) = idx

\* str::get(..idx)
str_get_to(s, idx) ==
    IF is_char_boundary(s, idx) THEN Some(SubSeq(s, 1, chars_to(s, idx))) ELSE None

\* &s[idx..] for idx a char boundary
str_from(s, idx) == SubSeq(s, chars_to(s, idx) + 1, Len(s))

(***************************************************************************)
(* Positions (stream/position.rs).                                         *)
(***************************************************************************)
NullPosition == [kind |-> "NullPosition", index |-> 0, line |-> 0, column |-> 0]
IndexPosition(n) == [kind |-> "IndexPosition", index |-> n, line |-> 0, column |-> 0]
LinePosition(l, c) == [kind |-> "LinePosition", index |-> 0, line |-> l, column |-> c]

PositionKinds == {"NullPosition", "IndexPosition", "LinePosition"}

\* Default::default() of each Position
DefaultPosition(kind) ==
    CASE kind = "IndexPosition" -> IndexPosition(0)
      [] kind = "LinePosition" -> LinePosition(1, 1)
      [] OTHER -> NullPosition

\* Position::update
update(pos, item) ==
    CASE pos.kind = "IndexPosition" -> [pos EXCEPT !.index = @ + 1]
      [] pos.kind = "LinePosition" ->
            IF item = NL
            THEN [pos EXCEPT !.line = @ + 1, !.column = 1]
            ELSE [pos EXCEPT !.column = @ + 1]
      [] OTHER -> pos

RECURSIVE update_each(_, _)
\* for item in range.tokens() { position.update(&item) }
update_each(pos, range) ==
    IF range = <<>> THEN pos ELSE update_each(update(pos, Head(range)), Tail(range))

\* Position::update_range
update_range(pos, range) ==
    CASE pos.kind = "IndexPosition" -> [pos EXCEPT !.index = @ + str_len(range)]
      [] pos.kind = "LinePosition" -> update_each(pos, range)
      [] OTHER -> pos

\* derived Ord of the Position types
PosLess(p, q) ==
    CASE p.kind = "IndexPosition" -> p.index < q.index
      [] p.kind = "LinePosition" ->
            p.line < q.line \/ (p.line = q.line /\ p.column < q.column)
      [] OTHER -> FALSE

(***************************************************************************)
(* Streams.  A stream operation yields the Option it returns, the stream   *)
(* it leaves in `self`, and whether it panicked instead of returning.      *)
(***************************************************************************)
Outcome(r, s) == [ret |-> r, self |-> s, panic |-> FALSE]
Panic(s) == [ret |-> None, self |-> s, panic |-> TRUE]

\* <&str as Stream>::peek, <String as Stream>::peek
str_peek(self) == IF self = <<>> THEN None ELSE Some(<<Head(self)>>)

\* <&str as Stream>::pop
str_pop(self) ==
    IF self = <<>> THEN Outcome(None, self)
    ELSE Outcome(Some(<<Head(self)>>), Tail(self))

\* <&str as Stream>::range
str_range(self, idx) ==
    LET range == str_get_to(self, idx)
    IN IF range.some THEN Outcome(range, str_from(self, idx)) ELSE Outcome(None, self)

\* <String as Stream>::pop
String_pop(self) ==
    IF self = <<>> THEN Outcome(None, self)
    ELSE Outcome(Some(<<Head(self)>>), Tail(self))

\* <String as Stream>::range: split_off panics past the end or inside a char
String_range(self, idx) ==
    IF str_len(self) > idx THEN Outcome(None, self)
    ELSE IF ~is_char_boundary(self, idx) THEN Panic(self)
    ELSE Outcome(Some(SubSeq(self, 1, chars_to(self, idx))), str_from(self, idx))

Backings == {"str", "String"}

\* State { stream, position } over a backing &str or String
State(backing, text, position) ==
    [backing |-> backing, stream |-> text, position |-> position]

\* State::peek
State_peek(self) == str_peek(self.stream)

\* State::pop with the position left where it was
State_pop_keeps_position(self) ==
    LET inner == IF self.backing = "str" THEN str_pop(self.stream)
                 ELSE String_pop(self.stream)
    IN IF inner.ret.some
       THEN Outcome(inner.ret, [self EXCEPT !.stream = inner.self])
       ELSE Outcome(None, [self EXCEPT !.stream = inner.self])

\* State::pop
State_pop(self) ==
    LET inner == IF self.backing = "str" THEN str_pop(self.stream)
                 ELSE String_pop(self.stream)
    IN IF inner.ret.some
       THEN Outcome(inner.ret,
                    [self EXCEPT !.stream = inner.self,
                                 !.position = update(self.position, inner.ret.val[1])])
       ELSE Outcome(None, [self EXCEPT !.stream = inner.self])

\* State::range
State_range(self, idx) ==
    LET inner == IF self.backing = "str" THEN str_range(self.stream, idx)
                 ELSE String_range(self.stream, idx)
    IN IF inner.panic THEN Panic(self)
       ELSE IF inner.ret.some
       THEN Outcome(inner.ret,
                    [self EXCEPT !.stream = inner.self,
                                 !.position = update_each(self.position, inner.ret.val)])
       ELSE Outcome(None, [self EXCEPT !.stream = inner.self])

(***************************************************************************)
(* The stream operations as a state machine: a caller holding one stream   *)
(* and calling peek, pop and range on it.                                  *)
(***************************************************************************)
NoResult == [res |-> "none"]

InitStream ==
    /\ \E b \in Backings, k \in PositionKinds, t \in Texts(MaxLen) :
          stream = State(b, t, DefaultPosition(k))
    /\ prev = stream
    /\ op = "init"
    /\ arg = 0
    /\ ret = None
    /\ subject = <<>>
    /\ result = NoResult
    /\ result2 = NoResult

Peek ==
    /\ op # "panic"
    /\ prev' = stream
    /\ ret' = State_peek(stream)
    /\ op' = "peek"
    /\ arg' = 0
    /\ UNCHANGED <<stream, subject, result, result2>>

Pop ==
    /\ op # "panic"
    /\ LET o == State_pop(stream)
       IN /\ stream' = o.self
          /\ ret' = o.ret
    /\ prev' = stream
    /\ op' = "pop"
    /\ arg' = 0
    /\ UNCHANGED <<subject, result, result2>>

RangeOp ==
    /\ op # "panic"
    /\ \E idx \in 0..MaxRange :
          LET o == State_range(stream, idx)
          IN /\ stream' = o.self
             /\ ret' = o.ret
             /\ op' = IF o.panic THEN "panic" ELSE "range"
             /\ arg' = idx
    /\ prev' = stream
    /\ UNCHANGED <<subject, result, result2>>

NextStream == Peek \/ Pop \/ RangeOp

SpecStream == InitStream /\ [][NextStream]_vars

(***************************************************************************)
(* Errors.  An error holds one unexpected fact, the expectation attached   *)
(* to it (none, one fact, or a OneOf list) and the Position it is stamped  *)
(* with.                                                                   *)
(***************************************************************************)
EndOfInput == [kind |-> "EndOfInput", val |-> <<>>]
UnexpectedItem(item) == [kind |-> "UnexpectedItem", val |-> <<item>>]
Message(msg) == [kind |-> "Message", val |-> <<msg>>]

NoExpected == [tag |-> "None", val |-> <<>>, sub |-> <<>>]
ExpectedItem(item) == [tag |-> "Item", val |-> <<item>>, sub |-> <<>>]
ExpectedRange(range) == [tag |-> "Range", val |-> range, sub |-> <<>>]
ExpectedDescription(msg) == [tag |-> "Msg", val |-> <<msg>>, sub |-> <<>>]
ExpectedOneOf(list) == [tag |-> "OneOf", val |-> <<>>, sub |-> list]

RECURSIVE Flatten(_)
\* the facts of a list of expectations, OneOf lists spliced in, None dropped
Flatten(list) ==
    IF list = <<>> THEN <<>>
    ELSE LET e == Head(list)
         IN (CASE e.tag = "None" -> <<>>
               [] e.tag = "OneOf" -> Flatten(e.sub)
               [] OTHER -> <<e>>) \o Flatten(Tail(list))

\* Expected::merge_one_of: one flat OneOf of the alternatives' expectations
merge_one_of(list) ==
    IF Flatten(list) = <<>> THEN NoExpected ELSE ExpectedOneOf(Flatten(list))

NoError == [unexpected |-> [kind |-> "None", val |-> <<>>],
            expected |-> NoExpected, position |-> NullPosition]

\* Errors::from_error(position, error)
ErrorAt(position, unexpected) ==
    [unexpected |-> unexpected, expected |-> NoExpected, position |-> position]

(***************************************************************************)
(* Parse results: Ok((Some(output), stream)), Ok((None, stream)) and       *)
(* Err((error, stream)).  Two more outcomes are not values the caller      *)
(* receives: "panic" (a Rust panic unwound the parse) and "loop" (the      *)
(* parse never returns).  An output is kept as the sequence of its items.  *)
(***************************************************************************)
\* Stream::ok
ok(self, output) == [res |-> "ok", out |-> output, err |-> NoError, stream |-> self]
\* Stream::noop
noop(self) == [res |-> "noop", out |-> <<>>, err |-> NoError, stream |-> self]
\* Stream::result
result_of(self, output) == IF output.some THEN ok(self, output.val) ELSE noop(self)
\* Stream::err: the error is stamped with the position of the stream
err(self, unexpected) ==
    [res |-> "err", out |-> <<>>, err |-> ErrorAt(self.position, unexpected),
     stream |-> self]
\* Stream::errs
errs(self, errors) == [res |-> "err", out |-> <<>>, err |-> errors, stream |-> self]

panicked(self) == [res |-> "panic", out |-> <<>>, err |-> NoError, stream |-> self]
diverges(self) == [res |-> "loop", out |-> <<>>, err |-> NoError, stream |-> self]

\* the result is a value handed back to the caller
Returned(r) == r.res \in {"ok", "noop", "err"}
Succeeded(r) == r.res \in {"ok", "noop"}
\* the Option<Output> of an Ok result
Output(r) == IF r.res = "ok" THEN Some(r.out) ELSE None

(***************************************************************************)
(* Parsers, as the terms the constructor functions build.                  *)
(***************************************************************************)
Parser(name, lit, sub) == [op |-> name, lit |-> lit, sub |-> sub]

any == Parser("any", <<>>, <<>>)
item(x) == Parser("item", <<x>>, <<>>)
satisfy(f) == Parser("satisfy", <<f>>, <<>>)
range(lit) == Parser("range", lit, <<>>)
with(p1, p2) == Parser("with", <<>>, <<p1, p2>>)
skip(p1, p2) == Parser("skip", <<>>, <<p1, p2>>)
then(p1, p2) == Parser("then", <<>>, <<p1, p2>>)
or(p1, p2) == Parser("or", <<>>, <<p1, p2>>)
optional(p) == Parser("optional", <<>>, <<p>>)
many(p) == Parser("many", <<>>, <<p>>)
many1(p) == Parser("many1", <<>>, <<p>>)
attempt(p) == Parser("attempt", <<>>, <<p>>)
lookahead(p) == Parser("lookahead", <<>>, <<p>>)
map(p, f) == Parser("map", <<f>>, <<p>>)
and_then(p, f) == Parser("and_then", <<f>>, <<p>>)
from_str(p) == Parser("from_str", <<>>, <<p>>)

RECURSIVE choice(_)
\* a choice! that puts its head behind its tail
choice_reversed(ps) ==
    IF Len(ps) = 1 THEN Head(ps) ELSE or(choice(Tail(ps)), Head(ps))

\* choice![head, tail...]
choice(ps) ==
    IF Len(ps) = 1 THEN Head(ps) ELSE or(Head(ps), choice(Tail(ps)))

\* the predicates given to satisfy: ascii::letter and "any but a newline"
Holds(f, c) ==
    CASE f = "an ascii letter" -> c \in {"a", "b"}
      [] OTHER -> c # NL

\* the closure given to map: char::to_ascii_uppercase on each item
Apply(f, output) ==
    [i \in 1..Len(output) |->
        CASE output[i] = "a" -> "A" [] output[i] = "b" -> "B" [] OTHER -> output[i]]

\* the closure given to and_then: a validation that rejects outputs
\* starting with 'b' (stream.err) and accepts the rest (stream.ok)
Bound(f, output, self) ==
    IF output # <<>> /\ Head(output) = "b"
    THEN err(self, Message(f))
    ELSE ok(self, output)

\* <char as str::FromStr>::from_str
char_from_str(s) ==
    CASE Len(s) = 0 -> [ok |-> FALSE, val |-> "cannot parse char from empty string"]
      [] Len(s) = 1 -> [ok |-> TRUE, val |-> s[1]]
      [] OTHER -> [ok |-> FALSE, val |-> "too many characters in string"]

(***************************************************************************)
(* The Parser contract.  parse_lazy runs without backtracking and without  *)
(* attaching the parser's static expectation; parse_partial attaches it;   *)
(* try_parse_lazy and parse restore the stream when the run fails.         *)
(* The tree holds Parser::parse (parser/mod.rs) and the impls of the        *)
(* combinators; the default methods of the trait the impls are written     *)
(* against (parse_lazy, parse_partial, try_parse_lazy, expected_error,     *)
(* add_expected_error), the error module and the item module are not in    *)
(* it and follow the documented contract and the expectations of the       *)
(* tests in parser/choice.rs.                                              *)
(***************************************************************************)
RECURSIVE expected_error(_)
RECURSIVE parse_lazy(_, _)
RECURSIVE parse_partial(_, _)
RECURSIVE try_parse_lazy(_, _)
RECURSIVE parse(_, _)

\* the unexpected fact for the head of the stream
unexpected_at(self) ==
    LET next == State_peek(self)
    IN IF next.some THEN UnexpectedItem(next.val[1]) ELSE EndOfInput

\* an Any that returns the next item and leaves it in the stream
Any_parse_lazy_unpopped(p, self) ==
    LET next == State_peek(self)
    IN IF next.some THEN ok(self, next.val) ELSE err(self, EndOfInput)

\* Any::parse_input
Any_parse_lazy(p, self) ==
    LET popped == State_pop(self)
    IN IF popped.ret.some THEN ok(popped.self, popped.ret.val)
       ELSE err(popped.self, EndOfInput)

\* Token::parse_input
Token_parse_lazy(p, self) ==
    LET next == State_peek(self)
    IN IF next.some /\ next.val[1] = p.lit[1]
       THEN ok(State_pop(self).self, next.val)
       ELSE err(self, unexpected_at(self))

\* Cond::parse_input
Cond_parse_lazy(p, self) ==
    LET next == State_peek(self)
    IN IF next.some /\ Holds(p.lit[1], next.val[1])
       THEN ok(State_pop(self).self, next.val)
       ELSE err(self, unexpected_at(self))

\* index of the first pair of items of the two texts that differ (0 if none)
first_mismatch(left, right) ==
    LET n == IF Len(left) < Len(right) THEN Len(left) ELSE Len(right)
        D == {i \in 1..n : left[i] # right[i]}
    IN IF D = {} THEN 0 ELSE CHOOSE i \in D : \A j \in D : i <= j

\* Range::parse_lazy
Range_parse_lazy(p, self) ==
    LET idx == str_len(p.lit)
        start_pos == self.position
        fetched == State_range(self, idx)
    IN IF fetched.panic THEN panicked(self)
       ELSE IF ~fetched.ret.some
       THEN errs(fetched.self, ErrorAt(start_pos, EndOfInput))
       ELSE IF fetched.ret.val = p.lit THEN ok(fetched.self, fetched.ret.val)
       ELSE LET i == first_mismatch(fetched.ret.val, p.lit)
            IN IF i = 0 THEN errs(fetched.self, ErrorAt(start_pos, EndOfInput))
               ELSE LET matched ==
                            IF self.backing = "str"
                            THEN str_range(fetched.ret.val, i - 1)
                            ELSE String_range(fetched.ret.val, i - 1)
                    IN IF matched.panic \/ ~matched.ret.some
                       THEN panicked(self)
                       ELSE errs(fetched.self,
                                 ErrorAt(update_range(start_pos, matched.ret.val),
                                         UnexpectedItem(fetched.ret.val[i])))

\* a With that hands back the stream it was given when p2 fails
With_parse_partial_rewound(p, self) ==
    LET first == parse_partial(p.sub[1], self)
    IN IF ~Succeeded(first) THEN first
       ELSE LET second == parse_partial(p.sub[2], first.stream)
            IN IF second.res = "err" THEN [second EXCEPT !.stream = self]
               ELSE IF ~Succeeded(second) THEN second
               ELSE result_of(second.stream, Output(second))

\* With::parse_partial
With_parse_partial(p, self) ==
    LET first == parse_partial(p.sub[1], self)
    IN IF ~Succeeded(first) THEN first
       ELSE LET second == parse_partial(p.sub[2], first.stream)
            IN IF ~Succeeded(second) THEN second
               ELSE result_of(second.stream, Output(second))

\* a Skip that yields the output of p2
Skip_parse_partial_second(p, self) ==
    LET first == parse_partial(p.sub[1], self)
    IN IF ~Succeeded(first) THEN first
       ELSE LET second == parse_partial(p.sub[2], first.stream)
            IN IF ~Succeeded(second) THEN second
               ELSE result_of(second.stream, Output(second))

\* Skip::parse_partial
Skip_parse_partial(p, self) ==
    LET first == parse_partial(p.sub[1], self)
    IN IF ~Succeeded(first) THEN first
       ELSE LET second == parse_partial(p.sub[2], first.stream)
            IN IF ~Succeeded(second) THEN second
               ELSE result_of(second.stream, Output(first))

\* Then::parse_partial
Then_parse_partial(p, self) ==
    LET first == parse_partial(p.sub[1], self)
    IN IF ~Succeeded(first) THEN first
       ELSE LET second == parse_partial(p.sub[2], first.stream)
            IN IF ~Succeeded(second) THEN second
               ELSE ok(second.stream, first.out \o second.out)

\* an Or that runs p1 with parse_lazy, the stream not restored when p1 fails
Or_parse_lazy_unrestored(p, self) ==
    LET first == parse_lazy(p.sub[1], self)
    IN IF first.res = "err" THEN parse_lazy(p.sub[2], first.stream)
       ELSE IF Succeeded(first) THEN result_of(first.stream, Output(first))
       ELSE first

\* Or::parse_lazy
Or_parse_lazy(p, self) ==
    LET first == try_parse_lazy(p.sub[1], self)
    IN IF first.res = "err" THEN parse_lazy(p.sub[2], first.stream)
       ELSE IF Succeeded(first) THEN result_of(first.stream, Output(first))
       ELSE first

\* an Or whose expectation nests the expectations of its branches
Or_expected_error_nested(p) ==
    ExpectedOneOf(<<expected_error(p.sub[1]), expected_error(p.sub[2])>>)

\* Or::expected_error
Or_expected_error(p) ==
    merge_one_of(<<expected_error(p.sub[1]), expected_error(p.sub[2])>>)

\* an Optional that hands back the stream as the inner parser left it
Optional_parse_lazy_unrestored(p, self) ==
    LET inner == parse_lazy(p.sub[1], self)
    IN IF inner.res = "ok" THEN ok(inner.stream, inner.out)
       ELSE IF Returned(inner) THEN result_of(inner.stream, None)
       ELSE inner

\* Optional::parse_lazy
Optional_parse_lazy(p, self) ==
    LET backup == self
        inner == parse_lazy(p.sub[1], self)
    IN IF inner.res = "ok" THEN ok(inner.stream, inner.out)
       ELSE IF Returned(inner) THEN result_of(backup, None)
       ELSE inner

RECURSIVE Many_loop(_, _, _, _)
\* a loop that never asks for a minimum of iterations
Many_loop_no_min(p, self, output, i) ==
    LET attempt_i == parse(p.sub[1], self)
    IN IF Succeeded(attempt_i)
       THEN IF attempt_i.stream = self THEN diverges(self)
            ELSE Many_loop(p, attempt_i.stream, output \o attempt_i.out, i + 1)
       ELSE IF attempt_i.res = "err" THEN ok(attempt_i.stream, output)
       ELSE attempt_i

\* a loop that runs the inner parser with parse_partial: the input a failing
\* attempt consumed is not given back
Many_loop_unrestored(p, self, output, i) ==
    LET attempt_i == parse_partial(p.sub[1], self)
        min == IF p.op = "many1" THEN 1 ELSE 0
    IN IF Succeeded(attempt_i)
       THEN IF attempt_i.stream = self THEN diverges(self)
            ELSE Many_loop(p, attempt_i.stream, output \o attempt_i.out, i + 1)
       ELSE IF attempt_i.res = "err"
       THEN IF i < min THEN errs(attempt_i.stream, attempt_i.err)
            ELSE ok(attempt_i.stream, output)
       ELSE attempt_i

\* a loop that breaks after the first successful iteration
Many_loop_once(p, self, output, i) ==
    LET attempt_i == parse(p.sub[1], self)
        min == IF p.op = "many1" THEN 1 ELSE 0
    IN IF Succeeded(attempt_i) THEN ok(attempt_i.stream, output \o attempt_i.out)
       ELSE IF attempt_i.res = "err"
       THEN IF i < min THEN errs(attempt_i.stream, attempt_i.err)
            ELSE ok(attempt_i.stream, output)
       ELSE attempt_i

\* the loop of Many::parse_stream: i iterations done, output collected so far
Many_loop(p, self, output, i) ==
    LET attempt_i == parse(p.sub[1], self)
        min == IF p.op = "many1" THEN 1 ELSE 0
    IN IF Succeeded(attempt_i)
       THEN IF attempt_i.stream = self THEN diverges(self)
            ELSE Many_loop(p, attempt_i.stream, output \o attempt_i.out, i + 1)
       ELSE IF attempt_i.res = "err"
       THEN IF i < min THEN errs(attempt_i.stream, attempt_i.err)
            ELSE ok(attempt_i.stream, output)
       ELSE attempt_i

\* Many::parse_stream
Many_parse_lazy(p, self) == Many_loop(p, self, <<>>, 0)

\* an Attempt that does not restore its backup
Attempt_parse_lazy_unrestored(p, self) == parse_lazy(p.sub[1], self)

\* Attempt::parse_lazy
Attempt_parse_lazy(p, self) ==
    LET backup == self
        inner == parse_lazy(p.sub[1], self)
    IN IF inner.res = "err" THEN [inner EXCEPT !.stream = backup] ELSE inner

\* a Lookahead that returns the stream of the inner run
Lookahead_parse_lazy_advancing(p, self) == parse_lazy(p.sub[1], self)

\* Lookahead::parse_lazy
Lookahead_parse_lazy(p, self) ==
    LET start == self
        inner == parse_lazy(p.sub[1], self)
    IN IF Succeeded(inner) THEN result_of(start, Output(inner))
       ELSE IF inner.res = "err" THEN errs(start, inner.err)
       ELSE inner

\* Map::parse_lazy
Map_parse_lazy(p, self) ==
    LET inner == parse_lazy(p.sub[1], self)
    IN IF inner.res = "ok" THEN ok(inner.stream, Apply(p.lit[1], inner.out))
       ELSE inner

\* an AndThen that hands every Ok result of p to f, NoMatch included
AndThen_parse_lazy_unmatched(p, self) ==
    LET inner == parse_lazy(p.sub[1], self)
    IN IF Succeeded(inner) THEN Bound(p.lit[1], inner.out, inner.stream)
       ELSE inner

\* AndThen::parse_lazy
AndThen_parse_lazy(p, self) ==
    LET inner == parse_lazy(p.sub[1], self)
    IN IF inner.res = "ok" THEN Bound(p.lit[1], inner.out, inner.stream)
       ELSE inner

\* a FromStr that reports a failed conversion on the stream it was given
FromStr_parse_partial_at_start(p, self) ==
    LET inner == parse_partial(p.sub[1], self)
    IN IF inner.res = "ok"
       THEN LET converted == char_from_str(inner.out)
            IN IF converted.ok THEN ok(inner.stream, <<converted.val>>)
               ELSE err(self, Message(converted.val))
       ELSE inner

\* FromStr::parse_partial
FromStr_parse_partial(p, self) ==
    LET inner == parse_partial(p.sub[1], self)
    IN IF inner.res = "ok"
       THEN LET converted == char_from_str(inner.out)
            IN IF converted.ok THEN ok(inner.stream, <<converted.val>>)
               ELSE err(inner.stream, Message(converted.val))
       ELSE inner

\* the parsers whose impl defines parse_partial (parse_lazy is derived)
DefinesPartial(p) == p.op \in {"with", "skip", "then", "from_str"}

\* Parser::expected_error of each parser
expected_error(p) ==
    CASE p.op = "any" -> ExpectedDescription("a token")
      [] p.op = "item" -> ExpectedItem(p.lit[1])
      [] p.op = "satisfy" -> ExpectedDescription(p.lit[1])
      [] p.op = "range" -> ExpectedRange(p.lit)
      [] p.op = "or" -> Or_expected_error(p)
      [] p.op \in {"optional", "attempt", "map", "and_then"} -> expected_error(p.sub[1])
      [] OTHER -> NoExpected

\* Parser::add_expected_error: the static expectation is attached to a
\* failure that carries none
add_expected_error(p, r) ==
    IF r.res = "err" /\ r.err.expected = NoExpected
    THEN [r EXCEPT !.err.expected = expected_error(p)]
    ELSE r

\* Parser::parse_lazy of each parser
parse_lazy(p, self) ==
    CASE p.op = "any" -> Any_parse_lazy(p, self)
      [] p.op = "item" -> Token_parse_lazy(p, self)
      [] p.op = "satisfy" -> Cond_parse_lazy(p, self)
      [] p.op = "range" -> Range_parse_lazy(p, self)
      [] p.op = "or" -> Or_parse_lazy(p, self)
      [] p.op = "optional" -> Optional_parse_lazy(p, self)
      [] p.op \in {"many", "many1"} -> Many_parse_lazy(p, self)
      [] p.op = "attempt" -> Attempt_parse_lazy(p, self)
      [] p.op = "lookahead" -> Lookahead_parse_lazy(p, self)
      [] p.op = "map" -> Map_parse_lazy(p, self)
      [] p.op = "and_then" -> AndThen_parse_lazy(p, self)
      [] OTHER -> parse_partial(p, self)

\* Parser::parse_partial of each parser
parse_partial(p, self) ==
    CASE p.op = "with" -> With_parse_partial(p, self)
      [] p.op = "skip" -> Skip_parse_partial(p, self)
      [] p.op = "then" -> Then_parse_partial(p, self)
      [] p.op = "from_str" -> FromStr_parse_partial(p, self)
      [] OTHER -> add_expected_error(p, parse_lazy(p, self))

\* Parser::try_parse_lazy: parse_lazy, the stream restored on failure
try_parse_lazy(p, self) ==
    IF p.op \in {"attempt", "lookahead"} THEN parse_lazy(p, self)
    ELSE LET backup == self
             r == parse_lazy(p, self)
         IN IF r.res = "err" THEN [r EXCEPT !.stream = backup] ELSE r

\* a parse that hands back the stream as the failed run left it
parse_keeps_stream(p, self) == parse_partial(p, self)

\* a parse that stamps the error with the position of the restored stream
parse_restamped(p, self) ==
    IF p.op = "lookahead" THEN parse_partial(p, self)
    ELSE LET backup == self
             r == parse_partial(p, self)
         IN IF r.res = "err"
            THEN [r EXCEPT !.stream = backup, !.err.position = backup.position]
            ELSE r

\* Parser::parse: the committed entry point
parse(p, self) ==
    IF p.op = "lookahead" THEN parse_partial(p, self)
    ELSE LET backup == self
             r == parse_partial(p, self)
         IN IF r.res = "err" THEN [r EXCEPT !.stream = backup] ELSE r

(***************************************************************************)
(* Parser runs as a state machine: a caller builds a parser from the       *)
(* constructor functions and drives it once with a stream made from raw    *)
(* input (State::from) or from input and a start position (State::new).    *)
(***************************************************************************)
\* the primitive parsers
Prims ==
    {any, item("a"), item("b"), satisfy("an ascii letter"),
     range(<<"a", "b">>), range(<<"é", "b">>)}

\* parsers that consume several items, or none, before they fail or stop
Seqs ==
    {with(item("a"), item("b")), then(item("a"), any), range(<<"a", "b">>),
     many1(item("a")), optional(item("a"))}

Unary(P) ==
    UNION {{optional(q), many(q), many1(q), attempt(q), lookahead(q),
            map(q, "to_ascii_uppercase"), and_then(q, "rejected"), from_str(q)} :
           q \in P}

Binary(P, Q) ==
    UNION {{with(q, r), skip(q, r), then(q, r), or(q, r)} : <<q, r>> \in P \X Q}

\* the parsers a committed parse is run with
Subjects ==
    Prims \cup Unary(Prims) \cup Binary(Prims, Prims)
          \cup Unary(Seqs) \cup Binary(Seqs, Seqs)

\* the alternatives given to or and choice!
Alternatives ==
    {item("a"), item("b"), range(<<"a", "b">>), with(item("a"), item("b")),
     optional(item("b"))}

\* the alternatives nested three deep
Branches ==
    {item("a"), item("b"), range(<<"a", "b">>), optional(item("b"))}

\* alternatives that never return when run on some stream
Looping == {many(optional(item("a")))}

\* the streams a run starts from, over the text t
Streams(t) ==
    {State("str", t, IndexPosition(0)), State("str", t, IndexPosition(2)),
     State("str", t, LinePosition(1, 1)), State("str", t, NullPosition),
     State("String", t, IndexPosition(0))}

Init ==
    /\ \E t \in Texts(MaxLen) : stream \in Streams(t)
    /\ prev = stream
    /\ op = "init"
    /\ arg = 0
    /\ ret = None
    /\ subject = <<>>
    /\ result = NoResult
    /\ result2 = NoResult

\* the parser has not been run yet
Fresh == op = "init"

\* the bookkeeping of a run of `name` built from `ps` giving r (compared with r2)
Ran(name, ps, r, r2) ==
    /\ prev' = stream
    /\ subject' = ps
    /\ result' = r
    /\ result2' = r2
    /\ stream' = r.stream
    /\ op' = IF Returned(r) THEN name ELSE r.res
    /\ UNCHANGED <<arg, ret>>

\* p.parse(stream)
RunParse ==
    /\ Fresh
    /\ \E p \in Subjects : Ran("parse", <<p>>, parse(p, stream), NoResult)

\* or(p1, p2).parse(stream)
RunOr ==
    /\ Fresh
    /\ \E p1 \in Alternatives \cup Seqs, p2 \in Alternatives \cup Looping :
          Ran("or", <<p1, p2>>, parse(or(p1, p2), stream), NoResult)

\* or(or(a, b), c).parse(stream) and or(a, or(b, c)).parse(stream)
RunOrNested ==
    /\ Fresh
    /\ \E a \in Branches, b \in Branches, c \in Branches :
          Ran("or_nested", <<a, b, c>>,
              parse(or(or(a, b), c), stream), parse(or(a, or(b, c)), stream))

\* the or-chain written by hand for a list of one, two or three parsers
Chain(ps) ==
    CASE Len(ps) = 1 -> ps[1]
      [] Len(ps) = 2 -> or(ps[1], ps[2])
      [] OTHER -> or(ps[1], or(ps[2], ps[3]))

\* choice![p1, ..., pn].parse(stream) and the hand-nested chain
RunChoice ==
    /\ Fresh
    /\ \E n \in 1..3 : \E ps \in [1..n -> Branches] :
          Ran("choice", ps, parse(choice(ps), stream), parse(Chain(ps), stream))

Next == RunParse

Spec == Init /\ [][Next]_vars

NextChoice == RunOr \/ RunOrNested \/ RunChoice

SpecChoice == Init /\ [][NextChoice]_vars

(***************************************************************************)
(* Properties of positions and streams, checked under SpecStream.          *)
(***************************************************************************)
RECURSIVE PopN(_, _)
\* the stream left by k sequential pop() calls
PopN(self, k) == IF k = 0 THEN self ELSE PopN(State_pop(self).self, k - 1)

\* C2: for every Position kind, every position a stream reaches and every
\* range R (multi-byte chars included), update_range(R) gives the position
\* that update(item) for each item of R in order gives.
C2_UpdateRangeIsFold ==
    \A R \in Texts(MaxLen) :
        update_range(stream.position, R) = update_each(stream.position, R)

\* C3: whenever range(k) on a position-tracked stream succeeds, the stream
\* it leaves (remaining input and Position) is the one k sequential pop()
\* calls leave.
C3_RangeIsKPops ==
    (op = "range" /\ ret.some) => stream = PopN(prev, arg)

\* C4: range(n) returns Some(the first n items) and leaves the items after
\* them when at least n items remain; otherwise it returns None without
\* panicking and leaves remaining input and Position unchanged.
C4_RangeContract ==
    op \in {"range", "panic"} =>
        IF Len(prev.stream) >= arg
        THEN /\ op = "range"
             /\ ret = Some(SubSeq(prev.stream, 1, arg))
             /\ stream.stream = SubSeq(prev.stream, arg + 1, Len(prev.stream))
        ELSE /\ op = "range"
             /\ ret = None
             /\ stream = prev

\* C5: a pop() returning Some(item) removes exactly the first item and
\* applies the Position update rule once for it; a pop() returning None
\* (only on an exhausted stream) and every peek() leave remaining input and
\* Position unchanged.
C5_PopAdvancesByOne ==
    /\ op = "pop" =>
          IF prev.stream # <<>>
          THEN /\ ret = Some(<<Head(prev.stream)>>)
               /\ stream.stream = Tail(prev.stream)
               /\ stream.position = update(prev.position, Head(prev.stream))
               /\ stream.backing = prev.backing
          ELSE ret = None /\ stream = prev
    /\ op = "peek" =>
          /\ stream = prev
          /\ ret = IF prev.stream = <<>> THEN None ELSE Some(<<Head(prev.stream)>>)

\* a newline popped by a LinePosition stream that had already advanced
C5_Witness ==
    /\ op = "pop"
    /\ ret = Some(<<NL>>)
    /\ prev.position.kind = "LinePosition"
    /\ prev.position # DefaultPosition("LinePosition")
    /\ stream.position = LinePosition(prev.position.line + 1, 1)

(***************************************************************************)
(* Properties of the committed entry point, checked under Spec.            *)
(***************************************************************************)
\* C1: whenever the committed entry point P.parse(S) returns a failure, the
\* stream returned with it has the remaining input and the Position of S.
C1_BacktrackingPurity ==
    (op = "parse" /\ result.res = "err") => result.stream = prev

\* a failed parse whose run had moved the stream before it failed
C1_Witness ==
    /\ op = "parse"
    /\ result.res = "err"
    /\ parse_partial(subject[1], prev).stream # prev

(***************************************************************************)
(* Properties of or and choice!, checked under SpecChoice.                 *)
(***************************************************************************)
\* C6: or(or(a, b), c).parse and or(a, or(b, c)).parse return the same
\* outcome on every input: the same output and stream on success, the same
\* error (unexpected fact, Position, flat expectation set) and stream on
\* failure.
C6_ChoiceAssociativity ==
    (Len(subject) = 3 /\ op \in {"or_nested", "panic", "loop"}) =>
        result = result2

\* three alternatives that all failed, their expectations merged
C6_Witness ==
    /\ op = "or_nested"
    /\ result.res = "err"
    /\ result.err.expected.tag = "OneOf"
    /\ Len(result.err.expected.sub) = 3

\* C7: choice![p1, ..., pn] returns on every input the result (output, error
\* and stream) of the hand-nested chain p1.or(p2.or(... pn)), and choice![p]
\* that of p itself.
C7_ChoiceIsRightFold ==
    op = "choice" =>
        /\ result = result2
        /\ Len(subject) = 1 => result = parse(subject[1], prev)

\* a choice! of three parsers decided by its last one
C7_Witness ==
    /\ op = "choice"
    /\ Len(subject) = 3
    /\ parse(subject[1], prev).res = "err"
    /\ parse(subject[2], prev).res = "err"
    /\ result.res = "ok"

\* C8: or(p1, p2).parse(S) is determined by its branches: when p1 does not
\* fail on S the result is that of p1.parse(S) and p2 is not run; when p1
\* fails, however much it consumed, p2 is run from a stream identical to S
\* and a success of or has the output and stream of p2.parse(S).
C8_OrDeterminedByBranches ==
    (op # "init" /\ Len(subject) = 2) =>
        LET first == parse(subject[1], prev)
            second == parse(subject[2], prev)
        IN /\ Succeeded(first) =>
                 /\ result.res = first.res
                 /\ result.out = first.out
                 /\ result.stream = first.stream
           /\ first.res = "err" =>
                 /\ result.res = second.res
                 /\ Succeeded(second) =>
                       /\ result.out = second.out
                       /\ result.stream = second.stream

\* p1 consumed input before it failed and p2 then succeeded
C8_Witness ==
    /\ op = "or"
    /\ parse(subject[1], prev).res = "err"
    /\ parse_lazy(subject[1], prev).stream # prev
    /\ result.res = "ok"

\* C9: when both alternatives of or fail at the same Position, the error of
\* or keeps the unexpected fact and its expectations are the union of the
\* alternatives' expectations, as one flat OneOf list in alternative order.
C9_ErrorMerging ==
    (op = "or" /\ Len(subject) = 2) =>
        LET first == parse(subject[1], prev)
            second == parse(subject[2], prev)
        IN (/\ first.res = "err"
            /\ second.res = "err"
            /\ first.err.position = second.err.position) =>
               /\ result.res = "err"
               /\ result.err.position = first.err.position
               /\ result.err.unexpected \in
                      {first.err.unexpected, second.err.unexpected}
               /\ result.err.expected =
                      merge_one_of(<<first.err.expected, second.err.expected>>)

\* C10: when both alternatives of or fail at different Positions, the error
\* of or is the one detected at the greater Position, whichever alternative
\* it came from.
C10_FurthestFailureWins ==
    (op = "or" /\ Len(subject) = 2) =>
        LET first == parse(subject[1], prev)
            second == parse(subject[2], prev)
        IN (first.res = "err" /\ second.res = "err") =>
               /\ PosLess(second.err.position, first.err.position) =>
                      result.err = first.err
               /\ PosLess(first.err.position, second.err.position) =>
                      result.err = second.err

(***************************************************************************)
(* The HTTP examples: the version parser of examples/http/request_line.rs  *)
(* and the one of examples/http_parser.rs, run once on a request-line      *)
(* fragment.                                                               *)
(***************************************************************************)
MaxTail == 5      \* longest text after the "HTTP/" literal, in chars

HttpLiteral == <<"H", "T", "T", "P", "/">>

\* the chars a version number and what follows it are written with
VersionItems == {"1", ".", "2", " ", "x"}

\* the inputs: "HTTP/" or a damaged "HTTP" followed by a short text
HttpTexts ==
    {prefix \o t : prefix \in {HttpLiteral, SubSeq(HttpLiteral, 1, 4)},
                   t \in UNION {[1..k -> VersionItems] : k \in 0..MaxTail}}

\* examples/http/request_line.rs: http_version
http_version ==
    with(range(HttpLiteral),
         choice(<<range(<<"1", ".", "1">>), range(<<"1">>), range(<<"2">>)>>))

\* examples/http_parser.rs: http_version
http_parser_http_version ==
    then(range(HttpLiteral),
         choice(<<range(<<"1">>), range(<<"1", ".", "1">>), range(<<"2">>)>>))

InitHttp ==
    /\ \E t \in HttpTexts :
          stream \in {State("str", t, IndexPosition(0)),
                      State("str", t, LinePosition(1, 1)),
                      State("str", t, NullPosition)}
    /\ prev = stream
    /\ op = "init"
    /\ arg = 0
    /\ ret = None
    /\ subject = <<>>
    /\ result = NoResult
    /\ result2 = NoResult

\* http_version().parse(stream), examples/http/request_line.rs
RunHttpVersion ==
    /\ Fresh
    /\ Ran("http_version", <<http_version>>, parse(http_version, stream), NoResult)

\* http_version().parse(stream), examples/http_parser.rs
RunHttpParserVersion ==
    /\ Fresh
    /\ Ran("http_version", <<http_parser_http_version>>,
           parse(http_parser_http_version, stream), NoResult)

NextHttp == RunHttpVersion \/ RunHttpParserVersion

SpecHttp == InitHttp /\ [][NextHttp]_vars

\* the text begins with the given items
StartsWith(text, items) ==
    Len(text) >= Len(items) /\ SubSeq(text, 1, Len(items)) = items

\* C11: the HTTP-version parser consumes the full version "1.1" whenever
\* the input continues with "1.1" after "HTTP/" (8 items in all, so
\* "HTTP/1.1 x" leaves " x"), and never stops after "1".
C11_HttpVersionTakesFullVersion ==
    (op # "init" /\ StartsWith(prev.stream, HttpLiteral \o <<"1", ".", "1">>)) =>
        /\ result.res = "ok"
        /\ result.stream.stream = SubSeq(prev.stream, 9, Len(prev.stream))

\* the same, for the parser of examples/http/request_line.rs alone
HttpVersionOfRequestLineTakesFullVersion ==
    subject = <<http_version>> => C11_HttpVersionTakesFullVersion

(***************************************************************************)
(* Properties of range(literal), checked under Spec.                       *)
(***************************************************************************)
\* the run was of range(literal) alone
RangeRun == op # "init" /\ Len(subject) = 1 /\ subject[1].op = "range"

\* the items of the stream range(literal) compares with the literal
Fetched == SubSeq(prev.stream, 1, Len(subject[1].lit))

\* C12: when range(literal) fetches literal.len() items that differ from
\* the literal, it fails with UnexpectedItem(the first mismatched input
\* item) and ExpectedRange(literal), at the Position reached by advancing
\* the start Position over the k items that matched before the divergence.
C12_RangeLiteralPrecision ==
    (/\ RangeRun
     /\ Len(prev.stream) >= Len(subject[1].lit)
     /\ Fetched # subject[1].lit) =>
        LET k == first_mismatch(Fetched, subject[1].lit) - 1
        IN /\ result.res = "err"
           /\ result.err.unexpected = UnexpectedItem(prev.stream[k + 1])
           /\ result.err.expected = ExpectedRange(subject[1].lit)
           /\ result.err.position =
                  update_each(prev.position, SubSeq(prev.stream, 1, k))

\* C13: when the stream holds fewer items than the literal, range(literal)
\* fails with EndOfInput and ExpectedRange(literal) at the start Position,
\* whatever the available items are, and consumes nothing.
C13_RangeEndOfInput ==
    (RangeRun /\ Len(prev.stream) < Len(subject[1].lit)) =>
        /\ result.res = "err"
        /\ result.err.unexpected = EndOfInput
        /\ result.err.expected = ExpectedRange(subject[1].lit)
        /\ result.err.position = prev.position
        /\ result.stream = prev

(***************************************************************************)
(* Properties of many and many1, checked under Spec.                       *)
(***************************************************************************)
\* the run was of many(p) or many1(p)
ManyRun == op # "init" /\ Len(subject) = 1 /\ subject[1].op \in {"many", "many1"}

\* the parser that is repeated
Inner == subject[1].sub[1]

\* C14: when p fails at the first attempt on S, many(p).parse(S) succeeds
\* with an empty collection and many1(p).parse(S) fails with p's own error;
\* both return a stream identical to S.
C14_ManyBoundary ==
    (ManyRun /\ parse(Inner, prev).res = "err") =>
        /\ result.stream = prev
        /\ subject[1].op = "many" => (Succeeded(result) /\ result.out = <<>>)
        /\ subject[1].op = "many1" =>
               (result.res = "err" /\ result.err = parse(Inner, prev).err)

\* many1(p) failed although p had consumed input before failing
C14_Witness ==
    /\ ManyRun
    /\ subject[1].op = "many1"
    /\ result.res = "err"
    /\ parse_lazy(Inner, prev).stream # prev

RECURSIVE Applications(_, _)
\* p applied again and again from the stream: the number of successes, their
\* outputs in order, the stream after the last success and the result of
\* the attempt that ended the run
Applications(p, self) ==
    LET r == parse(p, self)
    IN IF Succeeded(r) /\ r.stream # self
       THEN LET rest == Applications(p, r.stream)
            IN [rest EXCEPT !.n = @ + 1, !.out = r.out \o @]
       ELSE [n |-> 0, out |-> <<>>, stream |-> self, last |-> r]

\* C15: when the inner parser fails after at least min successful
\* iterations, many/many1 succeed without surfacing the failing attempt's
\* error and return the stream as it was after the last successful
\* iteration, the input the failing attempt consumed given back.
C15_ManyRollsBack ==
    ManyRun =>
        LET run == Applications(Inner, prev)
            min == IF subject[1].op = "many1" THEN 1 ELSE 0
        IN (run.last.res = "err" /\ run.n >= min) =>
               /\ Succeeded(result)
               /\ result.err = NoError
               /\ result.stream = run.stream

\* a multi-item inner parser that succeeded, then failed part-way through
C15_Witness ==
    /\ ManyRun
    /\ Succeeded(result)
    /\ Applications(Inner, prev).n >= 1
    /\ Applications(Inner, prev).last.res = "err"
    /\ parse_lazy(Inner, result.stream).stream # result.stream

MaxIter == MaxLen + 2

\* the parsers that are repeated: consuming ones and zero-width ones
ManyInner ==
    Prims \cup Seqs \cup {lookahead(item("a")), skip(item("a"), optional(item("b")))}

\* many(p).parse(stream) / many1(p).parse(stream) is entered
ManyEnter ==
    /\ Fresh
    /\ \E p \in ManyInner : subject' \in {<<many(p)>>, <<many1(p)>>}
    /\ op' = "loop"
    /\ arg' = 0
    /\ ret' = Some(<<>>)
    /\ prev' = stream
    /\ UNCHANGED <<stream, result, result2>>

\* a match whose Ok arm pushes the output but keeps the old stream
Matched_same_stream(attempt_i, min) ==
    IF Succeeded(attempt_i)
    THEN /\ ret' = Some(ret.val \o attempt_i.out)
         /\ arg' = arg + 1
         /\ UNCHANGED <<op, result, stream>>
    ELSE /\ result' = IF attempt_i.res # "err" THEN attempt_i
                      ELSE IF arg < min
                      THEN errs(attempt_i.stream, attempt_i.err)
                      ELSE ok(attempt_i.stream, ret.val)
         /\ op' = IF attempt_i.res = "err" THEN "many" ELSE attempt_i.res
         /\ stream' = attempt_i.stream
         /\ UNCHANGED <<ret, arg>>

\* the match on the attempt of one iteration: Ok pushes the output and
\* increments i, Err breaks the loop with the result
Matched(attempt_i, min) ==
    IF Succeeded(attempt_i)
    THEN /\ ret' = Some(ret.val \o attempt_i.out)
         /\ stream' = attempt_i.stream
         /\ arg' = arg + 1
         /\ UNCHANGED <<op, result>>
    ELSE /\ result' = IF attempt_i.res # "err" THEN attempt_i
                      ELSE IF arg < min
                      THEN errs(attempt_i.stream, attempt_i.err)
                      ELSE ok(attempt_i.stream, ret.val)
         /\ op' = IF attempt_i.res = "err" THEN "many" ELSE attempt_i.res
         /\ stream' = attempt_i.stream
         /\ UNCHANGED <<ret, arg>>

\* one iteration of the loop
ManyIterate ==
    /\ op = "loop"
    /\ arg < MaxIter
    /\ Matched(parse(subject[1].sub[1], stream),
               IF subject[1].op = "many1" THEN 1 ELSE 0)
    /\ UNCHANGED <<prev, subject, result2>>

NextMany == ManyEnter \/ ManyIterate

SpecMany == Init /\ [][NextMany]_vars

\* a step of the running loop: the counter moves on or the loop is left
LoopAdvances ==
    /\ op = "loop"
    /\ arg < MaxIter
    /\ op' \in {"loop", "many", "panic"}
    /\ arg' \in {arg, arg + 1}
    /\ <<op', arg'>> # <<op, arg>>

\* the loop is sequential code: while it is running, its next iteration is
\* eventually taken
SpecManyLive == SpecMany /\ WF_<<op, arg>>(LoopAdvances)

(***************************************************************************)
(* Termination of repetition, checked under SpecManyLive.                  *)
(***************************************************************************)
\* the stream the parser was given, k items further
Suffix(k) == [prev EXCEPT !.stream = SubSeq(prev.stream, k + 1, Len(prev.stream))]

\* the repeated parser returns on every stream the loop can hand it, and
\* consumes at least one item whenever it succeeds
ConsumesOnSuccess ==
    \A k \in 0..Len(prev.stream) :
        LET r == parse(Inner, Suffix(k))
        IN /\ Returned(r)
           /\ Succeeded(r) => Len(r.stream.stream) < Len(prev.stream) - k

\* the loop of many/many1 over such a parser is running
Looping_Consuming == op = "loop" /\ ConsumesOnSuccess

\* C17: for every finite input and every inner parser p that terminates
\* and consumes at least one item on each success, many(p) and many1(p)
\* eventually return, after at most input-length + 1 iterations.
C17_ManyTerminates ==
    /\ [](Looping_Consuming => arg <= Len(prev.stream))
    /\ (Looping_Consuming ~> (op = "many"))

\* a loop that returned after input-length + 1 iterations
C17_Witness ==
    /\ op = "many"
    /\ ConsumesOnSuccess
    /\ arg = Len(prev.stream)
    /\ arg >= 2

(***************************************************************************)
(* Properties of optional, checked under Spec.                             *)
(***************************************************************************)
\* the run was of optional(p)
OptionalRun == op # "init" /\ Len(subject) = 1 /\ subject[1].op = "optional"

\* C18: optional(p) never fails: when p matches, it returns p's output and
\* p's resulting stream; when p fails (after consuming any amount of input)
\* or yields NoMatch, it returns NoMatch with a stream identical to S and no
\* error.
C18_OptionalNeverFails ==
    OptionalRun =>
        LET inner == parse_lazy(Inner, prev)
        IN /\ Returned(inner) => Succeeded(result)
           /\ inner.res = "ok" =>
                  /\ result.res = "ok"
                  /\ result.out = inner.out
                  /\ result.stream = inner.stream
           /\ inner.res \in {"err", "noop"} =>
                  /\ result.res = "noop"
                  /\ result.stream = prev
                  /\ result.err = NoError

\* p consumed input before it failed
C18_Witness ==
    /\ OptionalRun
    /\ parse_lazy(Inner, prev).res = "err"
    /\ parse_lazy(Inner, prev).stream # prev
    /\ result.res = "noop"

(***************************************************************************)
(* The three entry points of a parser, each called once on a stream.       *)
(***************************************************************************)
\* the parsers the lazy entry points are called on
LazySubjects == Prims \cup Seqs \cup Unary(Prims) \cup Unary(Seqs)

\* p.parse_lazy(stream)
RunParseLazy ==
    /\ Fresh
    /\ \E p \in LazySubjects :
          Ran("parse_lazy", <<p>>, parse_lazy(p, stream), NoResult)

\* p.try_parse_lazy(stream)
RunTryParseLazy ==
    /\ Fresh
    /\ \E p \in LazySubjects :
          Ran("try_parse_lazy", <<p>>, try_parse_lazy(p, stream), NoResult)

NextEntry == RunParse \/ RunParseLazy \/ RunTryParseLazy

SpecEntry == Init /\ [][NextEntry]_vars

\* the run was of lookahead(p), through any entry point
LookaheadRun == op # "init" /\ Len(subject) = 1 /\ subject[1].op = "lookahead"

AttemptRun == op = "parse_lazy" /\ subject[1].op = "attempt"

\* C20: attempt(p).parse_lazy(S) returns p.parse_lazy(S)'s output and stream
\* when p succeeds, and p's error with a stream identical to S when p fails,
\* although p.parse_lazy alone would return an advanced stream.
C20_AttemptBacktracksLazily ==
    AttemptRun =>
        LET inner == parse_lazy(Inner, prev)
        IN /\ result.res = inner.res
           /\ result.out = inner.out
           /\ result.err = inner.err
           /\ result.stream = IF inner.res = "err" THEN prev ELSE inner.stream

\* p failed and p.parse_lazy alone returns an advanced stream
C20_Witness ==
    /\ AttemptRun
    /\ result.res = "err"
    /\ parse_lazy(Inner, prev).stream # prev

(***************************************************************************)
(* Sequencing: with, skip and then over two parsers, run once through the  *)
(* committed and the lazy entry point.                                     *)
(***************************************************************************)
\* the parsers that are put in sequence
SeqParts ==
    {any, item("a"), item("b"), range(<<"a", "b">>),
     optional(item("a")), optional(item("b")),
     with(item("a"), item("b")), then(item("a"), any),
     map(optional(item("a")), "to_ascii_uppercase"), and_then(any, "rejected")}

SeqSubjects ==
    UNION {{with(q, r), skip(q, r), then(q, r)} : <<q, r>> \in SeqParts \X SeqParts}

\* p.parse(stream) for a sequence p
RunSeq ==
    /\ Fresh
    /\ \E p \in SeqSubjects : Ran("parse", <<p>>, parse(p, stream), NoResult)

\* p.parse_lazy(stream) for a sequence p
RunSeqLazy ==
    /\ Fresh
    /\ \E p \in SeqSubjects :
          Ran("parse_lazy", <<p>>, parse_lazy(p, stream), NoResult)

NextSeq == RunSeq \/ RunSeqLazy

SpecSeq == Init /\ [][NextSeq]_vars

\* the run was of with, skip or then
SeqRun ==
    /\ op \in {"parse", "parse_lazy"}
    /\ Len(subject) = 1
    /\ subject[1].op \in {"with", "skip", "then"}

\* self.p1.parse_partial(stream)
First == parse_partial(subject[1].sub[1], prev)

\* self.p2.parse_partial(stream), on the stream p1 returned
Second == parse_partial(subject[1].sub[2], First.stream)

\* C21: with, skip and then run p1 first and p2 on the stream p1 returned;
\* when p1 fails the result is p1's failure and p2 is not run; the first
\* failure is returned unchanged (the failing sub-parser's own error, at
\* the Position where it occurred), and at the lazy entry point the stream
\* returned is the one the failing sub-parser left, what p1 consumed not
\* rolled back.
C21_SequenceFailure ==
    SeqRun =>
        /\ First.res = "err" =>
               /\ result.res = "err"
               /\ result.err = First.err
               /\ op = "parse_lazy" => result.stream = First.stream
        /\ (Succeeded(First) /\ Second.res = "err") =>
               /\ result.res = "err"
               /\ result.err = Second.err
               /\ op = "parse_lazy" => result.stream = Second.stream

\* p1 consumed input, then p2 consumed more and failed, at the lazy entry
C21_Witness ==
    /\ SeqRun
    /\ op = "parse_lazy"
    /\ Succeeded(First)
    /\ First.stream # prev
    /\ Second.res = "err"
    /\ Second.stream # First.stream
    /\ result.stream = Second.stream

\* C22: when both sub-parsers succeed, with(p1, p2) yields p2's output,
\* skip(p1, p2) yields p1's output and then(p1, p2) yields a collection
\* holding p1's output followed by p2's output; in all three the stream is
\* the one p2 returned.
C22_SequenceOutputs ==
    (SeqRun /\ Succeeded(First) /\ Succeeded(Second)) =>
        /\ result.stream = Second.stream
        /\ subject[1].op = "with" => Output(result) = Output(Second)
        /\ subject[1].op = "skip" => Output(result) = Output(First)
        /\ subject[1].op = "then" =>
               (result.res = "ok" /\ result.out = First.out \o Second.out)

\* skip over two parsers that matched different items
C22_Witness ==
    /\ SeqRun
    /\ subject[1].op = "skip"
    /\ First.res = "ok"
    /\ Second.res = "ok"
    /\ First.out # Second.out
    /\ result.out = First.out
    /\ result.stream.stream # prev.stream

(***************************************************************************)
(* Properties of and_then and from_str, checked under SpecEntry.           *)
(***************************************************************************)
\* the run was and_then(p, f).parse_lazy(S)
AndThenRun == op = "parse_lazy" /\ subject[1].op = "and_then"

\* C23: and_then(p, f) calls f exactly when p matched, with p's output and
\* the stream p returned, and its result is then f's result; when p yields
\* NoMatch the result is NoMatch with p's stream, and when p fails it is p's
\* error and stream unchanged, f not called in either case.
C23_AndThenCallsOnMatch ==
    AndThenRun =>
        LET inner == parse_lazy(Inner, prev)
        IN /\ inner.res = "ok" =>
                  result = Bound(subject[1].lit[1], inner.out, inner.stream)
           /\ inner.res = "noop" => result = noop(inner.stream)
           /\ inner.res = "err" => result = inner

\* p matched and f rejected the output, on the stream p returned
C23_Witness ==
    /\ AndThenRun
    /\ parse_lazy(Inner, prev).res = "ok"
    /\ result.res = "err"
    /\ result.err.unexpected = Message(subject[1].lit[1])
    /\ result.stream # prev

\* the run was of from_str(p), through any entry point
FromStrRun == op # "init" /\ Len(subject) = 1 /\ subject[1].op = "from_str"

\* the items the run of p took from the stream
Taken(r) == SubSeq(prev.stream, 1, Len(prev.stream) - Len(r.stream.stream))

\* C24: when p matches text the typed conversion rejects, from_str(p) fails
\* with an error carrying the conversion's message, stamped with the
\* Position after all of the text p consumed; when p fails or yields
\* NoMatch, that outcome is passed through and no conversion is attempted.
C24_FromStrConversionFailure ==
    FromStrRun =>
        LET inner == parse_partial(Inner, prev)
        IN /\ (inner.res = "ok" /\ ~char_from_str(inner.out).ok) =>
                  /\ result.res = "err"
                  /\ result.err.unexpected = Message(char_from_str(inner.out).val)
                  /\ result.err.position = update_each(prev.position, Taken(inner))
           /\ inner.res \in {"err", "noop"} =>
                  /\ result.res = inner.res
                  /\ result.err = inner.err
                  /\ result.out = inner.out
                  /\ op = "parse_lazy" => result.stream = inner.stream

\* p matched two items, which are no char
C24_Witness ==
    /\ FromStrRun
    /\ parse_partial(Inner, prev).res = "ok"
    /\ Len(Taken(parse_partial(Inner, prev))) = 2
    /\ result.res = "err"
    /\ result.err.unexpected = Message("too many characters in string")
    /\ result.err.position # prev.position

(***************************************************************************)
(* The one-item parsers: any, item and satisfy as parsers (parser/token.rs)*)
(* and any and cond as functions of the input (parser.rs), each run once.  *)
(***************************************************************************)
\* parser.rs: any(i)
parser_any(i) ==
    LET popped == State_pop(i)
    IN IF popped.ret.some THEN ok(popped.self, popped.ret.val)
       ELSE err(popped.self, EndOfInput)

\* parser.rs: cond(i, f); every failure is Error::eof()
cond(i, f) ==
    LET next == State_peek(i)
    IN IF next.some /\ Holds(f, next.val[1])
       THEN ok(State_pop(i).self, next.val)
       ELSE err(i, EndOfInput)

\* the parsers of one item
OneItemParsers ==
    {any, item("a"), item("b"), item("é"), item(NL),
     satisfy("an ascii letter"), satisfy("any but a newline")}

\* p.parse(stream)
RunOneItem ==
    /\ Fresh
    /\ \E p \in OneItemParsers : Ran("parse", <<p>>, parse(p, stream), NoResult)

\* p.parse_lazy(stream)
RunOneItemLazy ==
    /\ Fresh
    /\ \E p \in OneItemParsers :
          Ran("parse_lazy", <<p>>, parse_lazy(p, stream), NoResult)

\* any(stream)
RunAny ==
    /\ Fresh
    /\ Ran("any", <<any>>, parser_any(stream), NoResult)

\* cond(stream, f)
RunCond ==
    /\ Fresh
    /\ \E f \in {"an ascii letter", "any but a newline"} :
          Ran("cond", <<satisfy(f)>>, cond(stream, f), NoResult)

NextOneItem == RunOneItem \/ RunOneItemLazy \/ RunAny \/ RunCond

SpecOneItem == Init /\ [][NextOneItem]_vars

\* the parser run accepts the item at the head of the stream
Accepts ==
    /\ prev.stream # <<>>
    /\ CASE subject[1].op = "item" -> Head(prev.stream) = subject[1].lit[1]
         [] subject[1].op = "satisfy" -> Holds(subject[1].lit[1], Head(prev.stream))
         [] OTHER -> TRUE

\* C25: satisfy(predicate), item(x) and cond consume exactly one item and
\* return it on success; on failure they consume nothing, at the lazy entry
\* point too, and the error is UnexpectedItem(the peeked item) when an item
\* is present but rejected and EndOfInput only when the stream is exhausted.
C25_OneItemFailure ==
    (/\ op \in {"parse", "parse_lazy", "cond"}
     /\ subject[1].op \in {"item", "satisfy"}) =>
        IF Accepts
        THEN /\ result.res = "ok"
             /\ result.out = <<Head(prev.stream)>>
             /\ result.stream = PopN(prev, 1)
        ELSE /\ result.res = "err"
             /\ result.stream = prev
             /\ result.err.unexpected =
                    IF prev.stream = <<>> THEN EndOfInput
                    ELSE UnexpectedItem(Head(prev.stream))

InputLinePositionDefault == LinePosition(0, 0)

\* State::from(input), with the LinePosition of stream/position.rs and with
\* the one of input.rs
InitLine ==
    /\ \E t \in Texts(MaxLen), b \in Backings :
          stream \in {State(b, t, DefaultPosition("LinePosition")),
                      State(b, t, InputLinePositionDefault)}
    /\ prev = stream
    /\ op = "init"
    /\ arg = 0
    /\ ret = None
    /\ subject = <<>>
    /\ result = NoResult
    /\ result2 = NoResult

\* State::pop, the position updated by the item popped
LinePop ==
    /\ stream.stream # <<>>
    /\ stream' = State_pop(stream).self
    /\ ret' = State_pop(stream).ret
    /\ arg' = arg + 1
    /\ op' = "pop"
    /\ UNCHANGED <<prev, subject, result, result2>>

\* State::peek
LinePeek ==
    /\ op # "peek"
    /\ ret' = State_peek(stream)
    /\ op' = "peek"
    /\ UNCHANGED <<stream, prev, arg, subject, result, result2>>

NextLine == LinePop \/ LinePeek

SpecLine == InitLine /\ [][NextLine]_vars

\* C27: LinePosition is 1-based: the position of a State made from raw
\* input is line 1, column 1; a newline item increments the line and sets
\* the column to 1 and any other item increments the column, so after the
\* first n items the line is 1 + the number of newlines among them and the
\* column 1 + the number of items after the last newline: (1, n + 1) when
\* none of them is a newline.
C27_LinePositionOneBased ==
    LET newlines == {i \in 1..arg : prev.stream[i] = NL}
        last == IF newlines = {} THEN 0
                ELSE CHOOSE i \in newlines : \A j \in newlines : j <= i
    IN stream.position = LinePosition(1 + Cardinality(newlines), arg - last + 1)

(***************************************************************************)
(* Error positions and NoMatch results of sequences, checked under SpecSeq.*)
(***************************************************************************)
\* C28: an error keeps the Position where the mismatch was detected even
\* after backtracking: when a sequence consumes k items and then fails, the
\* error the committed parse returns is stamped with the Position k items
\* past the start while the stream returned is restored to the start; the
\* error Position is never moved back to the start of the attempt.
C28_ErrorPositionSurvivesBacktracking ==
    (SeqRun /\ op = "parse" /\ Succeeded(First) /\ Second.res = "err") =>
        /\ result.res = "err"
        /\ result.stream = prev
        /\ result.err.position = Second.err.position
        /\ subject[1].sub[2].op \in {"any", "item"} =>
               result.err.position = update_each(prev.position, Taken(First))
        /\ (First.stream # prev /\ prev.position.kind # "NullPosition") =>
               PosLess(prev.position, result.err.position)

\* p1 consumed two items before p2 failed on the third
C28_Witness ==
    /\ SeqRun
    /\ op = "parse"
    /\ First.res = "ok"
    /\ Len(Taken(First)) = 2
    /\ Second.res = "err"
    /\ result.stream = prev
    /\ result.err.position = update_each(prev.position, Taken(First))
    /\ result.err.position # prev.position

\* C29: at the lazy entry point a failing range(literal) does not rewind:
\* when the stream holds at least literal.len() items that do not equal the
\* literal, range(literal).parse_lazy returns the stream advanced past all
\* literal.len() fetched items, neither stopped at the divergence point nor
\* restored to the start, and the error is stamped with the divergence
\* Position.
C29_LazyRangeNoRewind ==
    (/\ op = "parse_lazy"
     /\ subject[1].op = "range"
     /\ Len(prev.stream) >= Len(subject[1].lit)
     /\ Fetched # subject[1].lit) =>
        LET k == first_mismatch(Fetched, subject[1].lit) - 1
        IN /\ result.res = "err"
           /\ result.stream = PopN(prev, Len(subject[1].lit))
           /\ result.err.position =
                  update_each(prev.position, SubSeq(prev.stream, 1, k))

\* C30: NoMatch means nothing was consumed: for every composition of with,
\* skip, optional, map and and_then and every stream S, whenever the parser
\* returns NoMatch the stream returned is identical to S (same remaining
\* input and Position); skip(optional(p1), p2) and with(p1, optional(p2))
\* never return NoMatch together with an advanced stream.
C30_NoMatchConsumesNothing ==
    (SeqRun /\ subject[1].op \in {"with", "skip"} /\ result.res = "noop") =>
        result.stream = prev

====
